---- MODULE Spec2Model ----
(***************************************************************************)
(* A model of the prompt-pipeline execution engine:                        *)
(*   PromptPipeline  (src/src/pipeline.py)                                 *)
(*   Prompt          (src/src/prompt_pipeline/prompt.py)                   *)
(*   PromptContext, PipelineResponse (src/src/prompt_pipeline/types.py)    *)
(*                                                                         *)
(* Python dicts are functions whose DOMAIN is the set of keys present.     *)
(* Python's None is the string "None"; every opaque value is a string, so  *)
(* that values of different origin can be compared.                        *)
(*                                                                         *)
(* The OpenAI client is the environment: each call of                      *)
(* client.responses.create either raises or returns one of a few texts,    *)
(* chosen nondeterministically.  The variable calls is the log an          *)
(* instrumented client would keep of the requests it received during the   *)
(* current call of execute.                                                *)
(***************************************************************************)
EXTENDS Integers, Sequences, FiniteSets, TLC

VARIABLES
  prompts,         \* PromptPipeline._prompts: sequence of Prompt objects
  context,         \* PromptPipeline._context: NoContext or a PromptContext
  responses,       \* PromptPipeline._responses: dict name -> PipelineResponse
  current_prompt,  \* PromptPipeline._current_prompt: "unset" | "last" | "detached"
  detached_prompt, \* the Prompt _current_prompt refers to once clear() has taken
                   \* it out of _prompts; NoPrompt otherwise
  caller_config,   \* a PromptConfig object the caller holds and can pass to
                   \* add_prompt(config=...) any number of times
  pc,              \* "idle" | "running" (inside execute's loop) | "done"
  i,               \* index of the prompt the loop of execute reaches next
  outcome,         \* how the last operation ended: returned a value or raised
  calls,           \* requests received by the client during this execute
  produced,        \* PipelineResponses returned by prompt.execute in this execute
  responses0,      \* _responses as it was when this execute was entered
  arg              \* the context argument this execute was called with

vars == <<prompts, context, responses, current_prompt, detached_prompt,
          caller_config, pc, i, outcome, calls, produced, responses0, arg>>

----------------------------------------------------------------------------
(* Bounds and input domains *)

MaxPrompts == 2

None == "None"

Names == {"a", "b"}
NameOpt == Names \cup {None}

CtxVals == {"c1", "c2"}
\* Values passed to format(**kwargs), and values kept in the side-store.
ArgVals == {"A", "Z"}
VarVals == {"B"}

\* Texts the client can return; "bad" does not validate against the model.
Texts == {"t1", "t2", "bad"}
Outputs == {"o1", "o2"}

ReservedKeys == {"context", "prev"}
FreeKeys == {"x", "y"}
Keys == ReservedKeys \cup FreeKeys

\* Names a step can depend on; "a" names a step or not, as the chain has it.
DepOpt == {None, "a"}

\* Templates, each as the set of fields it references:
\* "{context} {prev}" and "{context} {prev} {x} {y}".
Templates == {ReservedKeys, Keys}

EmptyDict == [k \in {} |-> None]

\* Values passed to configure(**kwargs) and to model(model_name).
ParamVals == {"0.5"}
ModelNames == {"m1"}

----------------------------------------------------------------------------
(* Python helpers *)

\* bool(v) for v an Optional[str]
Truthy(v) == v /= None /\ v /= ""

\* d.update(kw) / {**d, **kw}
DictUpdate(d, kw) ==
  [k \in (DOMAIN d) \cup (DOMAIN kw) |-> IF k \in DOMAIN kw THEN kw[k] ELSE d[k]]

\* The value None of an Optional[PromptContext]
NoContext == [none |-> TRUE]

\* PromptContext(context)
PromptContext(value) == [context |-> value, variables |-> EmptyDict]

\* PromptContext.set_var(name, value)
PromptContextSetVar(ctx, name, value) ==
  [ctx EXCEPT !.variables = DictUpdate(ctx.variables, [n \in {name} |-> value])]

\* PipelineResponse(output=..., raw_response=...)
PipelineResponse(output, raw) == [output |-> output, raw_response |-> raw]

\* The fields of PromptConfig; all but model are Optional and default to None.
ConfigFields ==
  {"model", "temperature", "max_tokens", "top_p", "frequency_penalty",
   "presence_penalty", "stop"}

\* PromptConfig(model=model)
PromptConfig(model) == [f \in ConfigFields |-> IF f = "model" THEN model ELSE None]

\* The config attribute of a Prompt is a reference: to a PromptConfig object of
\* its own (fields: its state), or to the object the caller holds.
OwnConfig(fields) == [owner |-> "prompt", fields |-> fields]
CallerConfig == [owner |-> "caller", fields |-> PromptConfig("gpt-4o-mini")]

\* "config or PromptConfig(model="gpt-4o-mini")": no config passed
DefaultConfig == OwnConfig(PromptConfig("gpt-4o-mini"))

\* The PromptConfig object p.config refers to, as it stands.
ConfigOf(p) == IF p.config.owner = "caller" THEN caller_config ELSE p.config.fields

\* Prompt(template, output_model, config, name, depends_on)
PromptWith(template, name, depends_on, config) ==
  [template |-> template, name |-> name, depends_on |-> depends_on,
   config |-> config, format_args |-> EmptyDict]

\* Prompt(template, output_model, name=, depends_on=), config left out
Prompt(template, name, depends_on) ==
  PromptWith(template, name, depends_on, DefaultConfig)

\* No Prompt object
NoPrompt == [none |-> TRUE]

\* Prompt.format(**kwargs)
PromptFormat(p, kw) == [p EXCEPT !.format_args = DictUpdate(p.format_args, kw)]

NoOutcome == [op |-> "none", kind |-> "none", value |-> None]
Returned(op, v) == [op |-> op, kind |-> "returned", value |-> v]
Raised(op, e) == [op |-> op, kind |-> "raised", value |-> e]

----------------------------------------------------------------------------
(* Prompt: single-step execution (prompt.py) *)

\* Mutant: the reserved keys are written first, so format() can shadow them.
FormatArgsShadowed(p, ctx, prev) ==
  LET format_args ==
        DictUpdate([k \in ReservedKeys |->
                      IF k = "context" THEN ctx.context ELSE prev],
                   p.format_args)
  IN  [k \in (DOMAIN format_args) \cup (DOMAIN ctx.variables) |->
         IF k \in DOMAIN format_args THEN format_args[k] ELSE ctx.variables[k]]

\* The dict format_args that Prompt._format_template builds.
FormatArgs(p, ctx, prev) ==
  LET format_args ==
        DictUpdate(p.format_args,
                   [k \in ReservedKeys |->
                      IF k = "context" THEN ctx.context ELSE prev])
  IN  [k \in (DOMAIN format_args) \cup (DOMAIN ctx.variables) |->
         IF k \in DOMAIN format_args THEN format_args[k] ELSE ctx.variables[k]]

\* self.template.format(**format_args): the value substituted for each field
\* of the template, or KeyError when a field is in no source.
FormatTemplate(p, ctx, prev) ==
  LET format_args == FormatArgs(p, ctx, prev)
  IN  IF p.template \subseteq DOMAIN format_args
      THEN [error |-> None, text |-> [k \in p.template |-> format_args[k]]]
      ELSE [error |-> "KeyError", text |-> EmptyDict]

\* output_model.model_validate_json(text)
ModelValidateJson(text) ==
  CASE text = "t1" -> [error |-> None, output |-> "o1"]
    [] text = "t2" -> [error |-> None, output |-> "o2"]
    [] OTHER       -> [error |-> "ValidationError", output |-> None]

\* What client.responses.create can do with one request.
Replies ==
  {[raises |-> TRUE, text |-> None]} \cup {[raises |-> FALSE, text |-> t] : t \in Texts}

NoResponse == PipelineResponse(None, None)

\* The keyword arguments of client.responses.create taken from the config.
RequestParams(config) ==
  [model |-> config.model, temperature |-> config.temperature,
   max_output_tokens |-> config.max_tokens, top_p |-> config.top_p]

\* Mutant: a text that does not validate yields a Result without output.
PromptExecuteLenient(p, ctx, prev, reply) ==
  LET formatted == FormatTemplate(p, ctx, prev)
      request   == [input |-> formatted.text, params |-> RequestParams(ConfigOf(p))]
      parsed    == ModelValidateJson(reply.text)
  IN  IF formatted.error /= None
      THEN [error |-> formatted.error, requests |-> <<>>, response |-> NoResponse]
      ELSE IF reply.raises
      THEN [error |-> "TransportError", requests |-> <<request>>,
            response |-> NoResponse]
      ELSE [error |-> None, requests |-> <<request>>,
            response |-> PipelineResponse(parsed.output, reply.text)]

\* Prompt.execute(client, context, prev_response), the client answering reply.
\* requests: the requests the client received (none when formatting failed).
PromptExecute(p, ctx, prev, reply) ==
  LET formatted == FormatTemplate(p, ctx, prev)
      request   == [input |-> formatted.text, params |-> RequestParams(ConfigOf(p))]
      parsed    == ModelValidateJson(reply.text)
  IN  IF formatted.error /= None
      THEN [error |-> formatted.error, requests |-> <<>>, response |-> NoResponse]
      ELSE IF reply.raises
      THEN [error |-> "TransportError", requests |-> <<request>>,
            response |-> NoResponse]
      ELSE IF parsed.error /= None
      THEN [error |-> parsed.error, requests |-> <<request>>,
            response |-> NoResponse]
      ELSE [error |-> None, requests |-> <<request>>,
            response |-> PipelineResponse(parsed.output, reply.text)]

----------------------------------------------------------------------------
(* PromptPipeline (pipeline.py) *)

\* Mutant: the argument is used only when no context was set.
EffectiveContextKeep(a, ctx) == IF ctx /= NoContext THEN ctx ELSE PromptContext(a)

\* self._context once execute has looked at its argument: an argument replaces
\* the context that was set
EffectiveContext(a, ctx) == IF a /= None THEN PromptContext(a) ELSE ctx

\* Mutant: the loop does not advance.
LoopNextRepeat(k) == k

\* "for prompt in self._prompts": the position after position k
LoopNext(k) == k + 1

\* Mutant: the Result stored under "a" is passed on whatever depends_on says.
PrevResponseImplicit(p, resp) ==
  IF "a" \in DOMAIN resp THEN resp["a"].output ELSE None

\* prev_response, as the loop of execute computes it for prompt p
PrevResponse(p, resp) ==
  IF Truthy(p.depends_on) /\ p.depends_on \in DOMAIN resp
  THEN resp[p.depends_on].output
  ELSE None

\* Mutant: an entry that exists is kept (first write wins).
StoreResponseKeep(resp, p, response) ==
  IF Truthy(p.name) /\ p.name \notin DOMAIN resp
  THEN DictUpdate(resp, [n \in {p.name} |-> response])
  ELSE resp

\* "if prompt.name: self._responses[prompt.name] = response"
StoreResponse(resp, p, response) ==
  IF Truthy(p.name)
  THEN DictUpdate(resp, [n \in {p.name} |-> response])
  ELSE resp

\* Mutant: the name of the first prompt selects the Result returned.
FinalOutputFirst(ps, resp) ==
  IF Len(ps) = 0
  THEN Raised("execute", "ValueError: No prompts in pipeline")
  ELSE IF Truthy(ps[Len(ps)].name) /\ Truthy(ps[1].name)
  THEN Returned("execute", resp[ps[1].name].output)
  ELSE Raised("execute", "AttributeError")

\* Mutant: an empty chain returns None.
FinalOutputEmptyNone(ps, resp) ==
  IF Len(ps) = 0
  THEN Returned("execute", None)
  ELSE IF Truthy(ps[Len(ps)].name)
  THEN Returned("execute", resp[ps[Len(ps)].name].output)
  ELSE Raised("execute", "AttributeError")

\* The tail of execute, after the loop.  A Prompt has no attribute "output",
\* so the else-branch of the conditional expression raises AttributeError.
FinalOutput(ps, resp) ==
  IF Len(ps) = 0
  THEN Raised("execute", "ValueError: No prompts in pipeline")
  ELSE IF Truthy(ps[Len(ps)].name)
  THEN Returned("execute", resp[ps[Len(ps)].name].output)
  ELSE Raised("execute", "AttributeError")

\* The caller is between two operations of the pipeline.
AtRest == pc = "idle"

\* An operation other than execute ends with outcome o.
Ends(o) ==
  /\ pc' = "idle"
  /\ i' = 0
  /\ outcome' = o
  /\ calls' = <<>>
  /\ produced' = <<>>
  /\ responses0' = EmptyDict
  /\ arg' = None

Init ==
  /\ prompts = <<>>
  /\ context = NoContext
  /\ responses = EmptyDict
  /\ current_prompt = "unset"
  /\ detached_prompt = NoPrompt
  /\ caller_config = PromptConfig("gpt-4o")
  /\ pc = "idle"
  /\ i = 0
  /\ outcome = NoOutcome
  /\ calls = <<>>
  /\ produced = <<>>
  /\ responses0 = EmptyDict
  /\ arg = None

\* Mutant: the context goes with the prompts, whatever reset_context says.
ClearCoupled(reset_prompts, reset_context, reset_responses) ==
  /\ AtRest
  /\ prompts' = IF reset_prompts THEN <<>> ELSE prompts
  /\ context' = IF reset_prompts THEN NoContext ELSE context
  /\ responses' = IF reset_responses THEN EmptyDict ELSE responses
  /\ current_prompt' =
       IF reset_prompts /\ current_prompt = "last" THEN "detached"
       ELSE current_prompt
  /\ detached_prompt' =
       IF reset_prompts /\ current_prompt = "last" THEN prompts[Len(prompts)]
       ELSE detached_prompt
  /\ UNCHANGED caller_config
  /\ Ends(NoOutcome)

\* PromptPipeline.clear(reset_prompts, reset_context, reset_responses)
Clear(reset_prompts, reset_context, reset_responses) ==
  /\ AtRest
  /\ prompts' = IF reset_prompts THEN <<>> ELSE prompts
  /\ context' = IF reset_context THEN NoContext ELSE context
  /\ responses' = IF reset_responses THEN EmptyDict ELSE responses
  /\ current_prompt' =
       IF reset_prompts /\ current_prompt = "last" THEN "detached"
       ELSE current_prompt
  /\ detached_prompt' =
       IF reset_prompts /\ current_prompt = "last" THEN prompts[Len(prompts)]
       ELSE detached_prompt
  /\ UNCHANGED caller_config
  /\ Ends(NoOutcome)

\* The default values of the parameters of clear
DefaultResetPrompts == TRUE
DefaultResetContext == TRUE
DefaultResetResponses == TRUE

\* PromptPipeline.clear()
ClearNoArguments ==
  Clear(DefaultResetPrompts, DefaultResetContext, DefaultResetResponses)

\* Mutant: the wrapper that is there is kept, and only its value replaced.
ContextKeepVariables(value) ==
  /\ AtRest
  /\ context' = IF context = NoContext
                THEN PromptContext(value)
                ELSE [context EXCEPT !.context = value]
  /\ UNCHANGED <<prompts, responses, current_prompt, detached_prompt, caller_config>>
  /\ Ends(NoOutcome)

\* PromptPipeline.context(**kwargs)
Context(value) ==
  /\ AtRest
  /\ context' = PromptContext(value)
  /\ UNCHANGED <<prompts, responses, current_prompt, detached_prompt, caller_config>>
  /\ Ends(NoOutcome)

\* PromptPipeline.add_prompt: prompt is the Prompt it constructs.  The Prompt
\* that _current_prompt referred to is no longer referred to by the pipeline.
AppendPrompt(prompt) ==
  /\ AtRest
  /\ Len(prompts) < MaxPrompts
  /\ prompts' = Append(prompts, prompt)
  /\ current_prompt' = "last"
  /\ detached_prompt' = NoPrompt
  /\ UNCHANGED <<context, responses, caller_config>>
  /\ Ends(NoOutcome)

\* PromptPipeline.add_prompt(template, output_model=, name=, depends_on=)
AddPrompt(template, name, depends_on) ==
  AppendPrompt(Prompt(template, name, depends_on))

\* PromptPipeline.add_prompt(template, output_model=, name=, depends_on=, config=)
AddPromptWith(template, name, depends_on, config) ==
  AppendPrompt(PromptWith(template, name, depends_on, config))

\* The Prompt self._current_prompt refers to (the attribute exists).
CurrentPrompt ==
  IF current_prompt = "last" THEN prompts[Len(prompts)] ELSE detached_prompt

\* The Prompt self._current_prompt refers to is changed in place into q.
MutateCurrentPrompt(q) ==
  /\ prompts' = IF current_prompt = "last"
                THEN [prompts EXCEPT ![Len(prompts)] = q]
                ELSE prompts
  /\ detached_prompt' = IF current_prompt = "detached" THEN q ELSE detached_prompt

\* The PromptConfig object p.config refers to is changed in place into fields.
MutateConfig(p, fields) ==
  IF p.config.owner = "caller"
  THEN /\ caller_config' = fields
       /\ UNCHANGED <<prompts, detached_prompt>>
  ELSE /\ MutateCurrentPrompt([p EXCEPT !.config = OwnConfig(fields)])
       /\ UNCHANGED caller_config

\* Prompt.configure(**kwargs): setattr(self.config, key, value) for each key
PromptConfigure(config, kw) == DictUpdate(config, kw)

\* Prompt.model(model_name): self.config.model = model_name
PromptModel(config, model_name) == [config EXCEPT !["model"] = model_name]

\* Reading self._current_prompt before add_prompt has assigned it: __init__
\* and clear never create the attribute.
NoCurrentPrompt(op) ==
  /\ Ends(Raised(op, "AttributeError"))
  /\ UNCHANGED <<prompts, detached_prompt, caller_config>>

\* PromptPipeline.format(**kwargs)
Format(kw) ==
  /\ AtRest
  /\ IF current_prompt = "unset"
     THEN NoCurrentPrompt("format")
     ELSE /\ MutateCurrentPrompt(PromptFormat(CurrentPrompt, kw))
          /\ UNCHANGED caller_config
          /\ Ends(NoOutcome)
  /\ UNCHANGED <<context, responses, current_prompt>>

\* PromptPipeline.configure(**kwargs), the keys being fields of PromptConfig
Configure(kw) ==
  /\ AtRest
  /\ IF current_prompt = "unset"
     THEN NoCurrentPrompt("configure")
     ELSE /\ MutateConfig(CurrentPrompt, PromptConfigure(ConfigOf(CurrentPrompt), kw))
          /\ Ends(NoOutcome)
  /\ UNCHANGED <<context, responses, current_prompt>>

\* PromptPipeline.model(model_name)
Model(model_name) ==
  /\ AtRest
  /\ IF current_prompt = "unset"
     THEN NoCurrentPrompt("model")
     ELSE /\ MutateConfig(CurrentPrompt, PromptModel(ConfigOf(CurrentPrompt), model_name))
          /\ Ends(NoOutcome)
  /\ UNCHANGED <<context, responses, current_prompt>>

\* PromptPipeline.execute(context), up to the loop
ExecuteBegin(a) ==
  /\ AtRest
  /\ IF a = None /\ context = NoContext
     THEN /\ Ends(Raised("execute", "ValueError: No context provided"))
          /\ UNCHANGED context
     ELSE /\ context' = EffectiveContext(a, context)
          /\ pc' = "running"
          /\ i' = 1
          /\ outcome' = NoOutcome
          /\ calls' = <<>>
          /\ produced' = <<>>
          /\ responses0' = responses
          /\ arg' = a
  /\ UNCHANGED <<prompts, responses, current_prompt, detached_prompt, caller_config>>

\* Mutant: the namespace a step builds is written back to its format arguments.
ExecuteStepWriteBack(reply) ==
  /\ pc = "running"
  /\ i <= Len(prompts)
  /\ LET prompt        == prompts[i]
         prev_response == PrevResponse(prompt, responses)
         r             == PromptExecute(prompt, context, prev_response, reply)
     IN  /\ calls' = calls \o [j \in DOMAIN r.requests |->
                                 [step |-> i, input |-> r.requests[j].input,
                                  params |-> r.requests[j].params,
                                  reply |-> reply]]
         /\ IF r.error = None
            THEN /\ responses' = StoreResponse(responses, prompt, r.response)
                 /\ produced' = Append(produced, r.response)
                 /\ i' = LoopNext(i)
                 /\ UNCHANGED <<pc, outcome>>
            ELSE /\ pc' = "idle"
                 /\ outcome' = Raised("execute", r.error)
                 /\ UNCHANGED <<responses, produced, i>>
  /\ prompts' = [prompts EXCEPT ![i].format_args =
                             FormatArgs(prompts[i], context,
                                        PrevResponse(prompts[i], responses))]
  /\ UNCHANGED <<context, current_prompt, detached_prompt,
                 caller_config, responses0, arg>>

\* PromptPipeline.execute: one iteration of the loop
ExecuteStep(reply) ==
  /\ pc = "running"
  /\ i <= Len(prompts)
  /\ LET prompt        == prompts[i]
         prev_response == PrevResponse(prompt, responses)
         r             == PromptExecute(prompt, context, prev_response, reply)
     IN  /\ calls' = calls \o [j \in DOMAIN r.requests |->
                                 [step |-> i, input |-> r.requests[j].input,
                                  params |-> r.requests[j].params,
                                  reply |-> reply]]
         /\ IF r.error = None
            THEN /\ responses' = StoreResponse(responses, prompt, r.response)
                 /\ produced' = Append(produced, r.response)
                 /\ i' = LoopNext(i)
                 /\ UNCHANGED <<pc, outcome>>
            ELSE /\ pc' = "idle"
                 /\ outcome' = Raised("execute", r.error)
                 /\ UNCHANGED <<responses, produced, i>>
  /\ UNCHANGED <<prompts, context, current_prompt, detached_prompt,
                 caller_config, responses0, arg>>

\* PromptPipeline.execute: after the loop
ExecuteFinish ==
  /\ pc = "running"
  /\ i > Len(prompts)
  /\ pc' = "idle"
  /\ outcome' = FinalOutput(prompts, responses)
  /\ UNCHANGED <<prompts, context, responses, current_prompt, detached_prompt,
                 caller_config, i, calls, produced, responses0, arg>>

Next ==
  \/ \E f \in BOOLEAN \X BOOLEAN \X BOOLEAN : Clear(f[1], f[2], f[3])
  \/ ClearNoArguments
  \/ \E v \in CtxVals : Context(v)
  \/ \E t \in Templates, n \in NameOpt, d \in DepOpt : AddPrompt(t, n, d)
  \/ \E a \in CtxVals \cup {None} : ExecuteBegin(a)
  \/ \E reply \in Replies : ExecuteStep(reply)
  \/ ExecuteFinish

Spec == Init /\ [][Next]_vars

----------------------------------------------------------------------------
(* A Prompt used on its own, with a PromptContext the caller holds:        *)
(* prompts is <<the Prompt>>, context the PromptContext, arg the           *)
(* prev_response of the last call of Prompt.execute.                       *)

InitPrompt ==
  /\ \E t \in Templates : prompts = <<Prompt(t, None, None)>>
  /\ \E c \in CtxVals : context = PromptContext(c)
  /\ responses = EmptyDict
  /\ current_prompt = "unset"
  /\ detached_prompt = NoPrompt
  /\ caller_config = PromptConfig("gpt-4o")
  /\ pc = "idle"
  /\ i = 0
  /\ outcome = NoOutcome
  /\ calls = <<>>
  /\ produced = <<>>
  /\ responses0 = EmptyDict
  /\ arg = None

\* Prompt.format(**kwargs) on the Prompt
StandaloneFormat(kw) ==
  /\ prompts' = <<PromptFormat(prompts[1], kw)>>
  /\ UNCHANGED <<context, responses, current_prompt, detached_prompt, caller_config>>
  /\ Ends(NoOutcome)

\* PromptContext.set_var(name, value) on the PromptContext
SetVar(name, value) ==
  /\ context /= NoContext
  /\ context' = PromptContextSetVar(context, name, value)
  /\ UNCHANGED <<prompts, responses, current_prompt, detached_prompt, caller_config>>
  /\ Ends(NoOutcome)

\* Prompt.execute(client, context, prev_response)
StandaloneExecute(prev, reply) ==
  LET r == PromptExecute(prompts[1], context, prev, reply)
  IN  /\ calls' = [j \in DOMAIN r.requests |->
                     [step |-> 1, input |-> r.requests[j].input,
                      params |-> r.requests[j].params, reply |-> reply]]
      /\ produced' = IF r.error = None THEN <<r.response>> ELSE <<>>
      /\ outcome' = IF r.error = None
                    THEN Returned("Prompt.execute", r.response.output)
                    ELSE Raised("Prompt.execute", r.error)
      /\ arg' = prev
      /\ UNCHANGED <<prompts, context, responses, current_prompt, detached_prompt,
                     caller_config, pc, i, responses0>>

NextPrompt ==
  \/ \E k \in Keys, v \in ArgVals : StandaloneFormat([x \in {k} |-> v])
  \/ \E k \in Keys, v \in VarVals : SetVar(k, v)
  \/ \E prev \in Outputs \cup {None}, reply \in Replies : StandaloneExecute(prev, reply)

SpecPrompt == InitPrompt /\ [][NextPrompt]_vars

----------------------------------------------------------------------------
(* The builder calls of a pipeline, with the executions between them.  The *)
(* steps use one template, "{context} {prev} {x}", and the caller reaches  *)
(* the PromptContext the pipeline holds to set a variable on it.           *)

BuilderTemplate == ReservedKeys \cup {"x"}

\* clear with one flag set: any subset is a sequence of these.
BuilderClears == {<<TRUE, FALSE, FALSE>>, <<FALSE, TRUE, FALSE>>, <<FALSE, FALSE, TRUE>>}

\* The client raises, or returns a text that validates.
BuilderReplies == {[raises |-> TRUE, text |-> None], [raises |-> FALSE, text |-> "t1"]}

\* PromptContext.set_var(name, value) on the PromptContext of the pipeline,
\* between two operations
ContextSetVar(name, value) == AtRest /\ SetVar(name, value)

NextBuilder ==
  \/ \E f \in BuilderClears : Clear(f[1], f[2], f[3])
  \/ \E v \in CtxVals : Context(v)
  \/ \E c \in {DefaultConfig, CallerConfig} : AddPromptWith(BuilderTemplate, "a", None, c)
  \/ \E v \in ArgVals : Format([k \in {"x"} |-> v])
  \/ \E v \in ParamVals : Configure([k \in {"frequency_penalty"} |-> v])
  \/ \E m \in ModelNames : Model(m)
  \/ \E v \in VarVals : ContextSetVar("x", v)
  \/ ExecuteBegin(None)
  \/ \E reply \in BuilderReplies : ExecuteStep(reply)
  \/ ExecuteFinish

SpecBuilder == Init /\ [][NextBuilder]_vars

----------------------------------------------------------------------------
(* Prompt._modify_schema (prompt.py).  A JSON schema is a dict: a function  *)
(* from the keys present to their values.  arg is the schema the output     *)
(* model gives, produced the results of the successive applications.        *)

MaxDepth == 4

\* A dict with the single key k
Entry(k, v) == [x \in {k} |-> v]

\* The forms additionalProperties has in a schema: absent, true or false.
Markers == {EmptyDict, Entry("additionalProperties", TRUE),
            Entry("additionalProperties", FALSE)}

\* The object schemas whose one property, if any, is taken from children.
ObjectSchemas(children) ==
  {DictUpdate(Entry("type", "object"), m) : m \in Markers}
  \cup {DictUpdate(DictUpdate(Entry("type", "object"), m),
                   Entry("properties", Entry("p", c))) :
          m \in Markers, c \in children}

\* The array schemas whose items, if any, are taken from children.
ArraySchemas(children) ==
  {Entry("type", "array")}
  \cup {DictUpdate(Entry("type", "array"), Entry("items", c)) : c \in children}

\* The schemas of depth at most d: a string, an object or an array.
RECURSIVE Schemas(_)
Schemas(d) ==
  IF d = 1
  THEN {Entry("type", "string")} \cup ObjectSchemas({}) \cup ArraySchemas({})
  ELSE {Entry("type", "string")} \cup ObjectSchemas(Schemas(d - 1))
         \cup ArraySchemas(Schemas(d - 1))

\* output_model.model_json_schema(): the schema of a model is an object.
ModelJsonSchemas == ObjectSchemas(Schemas(MaxDepth - 1))

\* schema.get(key)
Get(schema, key) == IF key \in DOMAIN schema THEN schema[key] ELSE None

RECURSIVE ModifySchema(_)

\* Mutant: an object that carries the marker has it negated.
ModifySchemaToggle(schema) ==
  IF Get(schema, "type") = "object"
  THEN DictUpdate(schema,
                  Entry("additionalProperties",
                        IF "additionalProperties" \in DOMAIN schema
                        THEN ~schema["additionalProperties"]
                        ELSE FALSE))
  ELSE schema

\* Prompt._modify_schema(schema): the dict as the call leaves it
ModifySchema(schema) ==
  IF Get(schema, "type") = "object"
  THEN LET marked == DictUpdate(schema, Entry("additionalProperties", FALSE))
           modified(q) ==
             IF Get(q, "type") = "object"
             THEN ModifySchema(q)
             ELSE IF Get(q, "type") = "array" /\ "items" \in DOMAIN q
             THEN [q EXCEPT !["items"] = ModifySchema(q["items"])]
             ELSE q
       IN  IF "properties" \in DOMAIN schema
           THEN [marked EXCEPT !["properties"] =
                   [k \in DOMAIN schema["properties"] |->
                      modified(schema["properties"][k])]]
           ELSE marked
  ELSE schema

InitSchema ==
  /\ arg \in ModelJsonSchemas
  /\ produced = <<>>
  /\ prompts = <<>>
  /\ context = NoContext
  /\ responses = EmptyDict
  /\ current_prompt = "unset"
  /\ detached_prompt = NoPrompt
  /\ caller_config = PromptConfig("gpt-4o")
  /\ pc = "idle"
  /\ i = 0
  /\ outcome = NoOutcome
  /\ calls = <<>>
  /\ responses0 = EmptyDict

\* self._modify_schema(schema), applied to the schema of the model and then
\* once more to its own result
Tighten ==
  /\ Len(produced) < 2
  /\ produced' = Append(produced,
                        ModifySchema(IF produced = <<>> THEN arg
                                     ELSE produced[Len(produced)]))
  /\ UNCHANGED <<prompts, context, responses, current_prompt, detached_prompt,
                 caller_config, pc, i, outcome, calls, responses0, arg>>

NextSchema == Tighten

SpecSchema == InitSchema /\ [][NextSchema]_vars

\* The object-typed nodes of a schema reachable through properties and items
\* at any depth all carry additionalProperties = false.
RECURSIVE AllObjectsClosed(_)
AllObjectsClosed(schema) ==
  /\ Get(schema, "type") = "object" =>
       /\ "additionalProperties" \in DOMAIN schema
       /\ schema["additionalProperties"] = FALSE
  /\ "properties" \in DOMAIN schema =>
       \A k \in DOMAIN schema["properties"] :
          AllObjectsClosed(schema["properties"][k])
  /\ "items" \in DOMAIN schema => AllObjectsClosed(schema["items"])

----------------------------------------------------------------------------
(* Vocabulary of the properties *)

\* A call of execute has ended (returned or raised) and nothing was called since.
ExecuteEnded == pc = "idle" /\ outcome.op = "execute"

\* execute ran its loop to the end: every step of a chain of n >= 1 succeeded.
AllSucceeded ==
  /\ ExecuteEnded
  /\ Len(prompts) >= 1
  /\ i = Len(prompts) + 1

\* execute was aborted by the failure of step i.
StepFailed ==
  /\ ExecuteEnded
  /\ i \in 1..Len(prompts)

\* The last of the steps 1..k that is named n, 0 when there is none.
LastNamed(n, k) ==
  LET S == {j \in 1..k : prompts[j].name = n}
  IN  IF S = {} THEN 0 ELSE CHOOSE j \in S : \A m \in S : m <= j

\* The names carried by the steps 1..k.
NamesUpTo(k) == {prompts[j].name : j \in 1..k} \ {None}

\* The result map the specification asks for once steps 1..k have succeeded:
\* last write wins, everything else as it was when execute was entered.
ExpectedStore(k) ==
  [n \in (DOMAIN responses0) \cup NamesUpTo(k) |->
     IF LastNamed(n, k) > 0 THEN produced[LastNamed(n, k)] ELSE responses0[n]]

\* The reply validates: the client returned a text the output model accepts.
GoodReply(reply) == ~reply.raises /\ reply.text \in {"t1", "t2"}

----------------------------------------------------------------------------
\* The j-th request of a call is for step j, the requests before the last one
\* were answered by texts that validate, and n requests are sent when no step
\* fails.
C1_Order ==
  /\ \A j \in DOMAIN calls : calls[j].step = j
  /\ \A j \in DOMAIN calls : j < Len(calls) => GoodReply(calls[j].reply)
  /\ AllSucceeded => Len(calls) = Len(prompts)

\* When a request is sent, the step before it has returned its Result and, if
\* it is named, its Result is the one stored under its name.
C1_After ==
  (pc = "running" /\ Len(calls') = Len(calls) + 1) =>
     LET k == Len(calls')
     IN  /\ calls'[k].step = k
         /\ Len(produced) = k - 1
         /\ (k > 1 /\ prompts[k - 1].name /= None) =>
               /\ prompts[k - 1].name \in DOMAIN responses
               /\ responses[prompts[k - 1].name] = produced[k - 1]

(* C1: in one call of execute the client is invoked for the steps in list   *)
(* order, each at most once, the request for a step being sent only after   *)
(* the response of the step before it was validated and, if that step is    *)
(* named, stored; when no step fails, every one of the n steps is invoked.  *)
C1_InvocationOrder == [](C1_Order) /\ [][C1_After]_vars

\* A chain of two steps ran to its end.
C1_Witness == AllSucceeded /\ Len(calls) = 2 /\ prompts[1].name /= None

(* C2: a step whose depends_on names no stored Result makes execute fail    *)
(* with DependencyError, without a request for that step or a later one.    *)
C2_MissingDependencyFails ==
  [][(/\ pc = "running"
      /\ i <= Len(prompts)
      /\ prompts[i].depends_on /= None
      /\ prompts[i].depends_on \notin DOMAIN responses)
     => (/\ outcome' = Raised("execute", "DependencyError")
         /\ pc' = "idle"
         /\ calls' = calls)]_vars

C4_UnnamedTailReturned ==
  (AllSucceeded /\ prompts[Len(prompts)].name = None) =>
     outcome = Returned("execute", produced[Len(prompts)].output)

(* C5: when every step succeeds and the last step has a name, execute       *)
(* returns the output of the Result stored under that name, which is the    *)
(* Result the last step produced in this call, also when an earlier step    *)
(* carries the same name.                                                   *)
C5_NamedTailReturned ==
  (AllSucceeded /\ prompts[Len(prompts)].name /= None) =>
     LET n == prompts[Len(prompts)].name
     IN  /\ n \in DOMAIN responses
         /\ responses[n] = produced[Len(prompts)]
         /\ outcome = Returned("execute", produced[Len(prompts)].output)

\* Two steps named "a" produced different outputs and the second was returned.
C5_Witness ==
  /\ AllSucceeded
  /\ Len(prompts) = 2
  /\ prompts[1].name = "a"
  /\ prompts[2].name = "a"
  /\ produced[1].output /= produced[2].output
  /\ outcome.kind = "returned"

(* C6: when step k fails, execute raises the error of that step, unwrapped; *)
(* no later step is invoked; the failing step stores nothing; the Results   *)
(* stored by the named steps before k are in the result map.  A reply that  *)
(* is a failure is never passed over.                                       *)
C6_FailureAborts ==
  /\ \A j \in DOMAIN calls :
        ~GoodReply(calls[j].reply) => (StepFailed /\ i = j /\ j = Len(calls))
  /\ StepFailed =>
        /\ outcome.kind = "raised"
        /\ Len(produced) = i - 1
        /\ Len(calls) \in {i - 1, i}
        /\ \A j \in DOMAIN calls : calls[j].step <= i
        /\ Len(calls) = i =>
              outcome.value = IF calls[i].reply.raises THEN "TransportError"
                              ELSE "ValidationError"
        /\ Len(calls) = i - 1 =>
              /\ outcome.value = "KeyError"
              /\ \E k \in prompts[i].template :
                    /\ k \notin ReservedKeys
                    /\ k \notin DOMAIN prompts[i].format_args
                    /\ k \notin DOMAIN context.variables
        /\ responses = ExpectedStore(i - 1)

\* The second step failed in the client; the first one, named, had stored its
\* Result over an older one.
C6_Witness ==
  /\ StepFailed
  /\ i = 2
  /\ outcome.value = "TransportError"
  /\ prompts[1].name = "a"
  /\ "a" \in DOMAIN responses0
  /\ responses["a"] /= responses0["a"]

\* The second step failed on a text the output model rejects.
C6_WitnessValidation == StepFailed /\ i = 2 /\ outcome.value = "ValidationError"

\* The second step failed in its template.
C6_WitnessTemplate == StepFailed /\ i = 2 /\ outcome.value = "KeyError"

(* C7: after a call of execute in which every step succeeds, the entry of   *)
(* every name n carried by a step is the Result produced by the last step   *)
(* named n, and the other entries are as they were: steps without a name    *)
(* add or change no entry.                                                  *)
C7_LastWriteWins ==
  AllSucceeded =>
     /\ DOMAIN responses = (DOMAIN responses0) \cup NamesUpTo(Len(prompts))
     /\ \A n \in NamesUpTo(Len(prompts)) :
           responses[n] = produced[LastNamed(n, Len(prompts))]
     /\ \A n \in (DOMAIN responses0) \ NamesUpTo(Len(prompts)) :
           responses[n] = responses0[n]

\* Two steps named "a" ran, with different outputs, next to an entry "b" that
\* no step of the chain carries.
C7_Witness ==
  /\ AllSucceeded
  /\ Len(prompts) = 2
  /\ prompts[1].name = "a"
  /\ prompts[2].name = "a"
  /\ produced[1] /= produced[2]
  /\ "b" \in DOMAIN responses0

\* An unnamed step ran and the result map is as it was.
C7_WitnessUnnamed ==
  /\ AllSucceeded
  /\ \A j \in 1..Len(prompts) : prompts[j].name = None
  /\ responses0 /= EmptyDict

\* Every request carries the raw value of the pipeline's context.
C8_Requests ==
  \A j \in DOMAIN calls : calls[j].input["context"] = context.context

\* Entering the loop sets the context from the argument or keeps the one that
\* was set; the loop does not change it; without either, execute raises.
C8_Begin ==
  /\ (pc = "idle" /\ pc' = "running") =>
        /\ arg' /= None => context' = PromptContext(arg')
        /\ arg' = None => (context /= NoContext /\ context' = context)
  /\ pc = "running" => context' = context
  /\ (pc = "idle" /\ context = NoContext /\ outcome'.op = "execute") =>
        /\ outcome' = Raised("execute", "ValueError: No context provided")
        /\ pc' = "idle"
        /\ calls' = <<>>
        /\ responses' = responses

(* C8: the context of every request of a call of execute is the argument    *)
(* when one is passed, whatever context was set before, and the context set *)
(* before otherwise; with neither, execute raises ValueError ("No context   *)
(* provided"), no request is sent and the result map is unchanged.          *)
C8_EffectiveContext == [](C8_Requests) /\ [][C8_Begin]_vars

\* A request was sent with the argument "c2" of the call.
C8_Witness ==
  /\ calls /= <<>>
  /\ arg = "c2"
  /\ calls[1].input["context"] = "c2"

\* A request was sent with the context set before a call without argument.
C8_WitnessSet == calls /= <<>> /\ arg = None /\ pc = "running"

\* execute was called with no argument and no context.
C8_WitnessNone ==
  /\ outcome = Raised("execute", "ValueError: No context provided")
  /\ responses /= EmptyDict

(* C9: execute on an empty chain, a context being available, raises         *)
(* ValueError ("No prompts in pipeline"), sends no request and leaves the   *)
(* result map unchanged.                                                    *)
C9_EmptyChainFails ==
  /\ (pc = "running" /\ Len(prompts) = 0) => (calls = <<>> /\ responses = responses0)
  /\ (ExecuteEnded /\ Len(prompts) = 0 /\ context /= NoContext) =>
        /\ outcome = Raised("execute", "ValueError: No prompts in pipeline")
        /\ calls = <<>>
        /\ responses = responses0

\* execute ended on an empty chain whose result map holds a Result.
C9_Witness ==
  /\ ExecuteEnded
  /\ Len(prompts) = 0
  /\ context /= NoContext
  /\ responses /= EmptyDict

(* C10: in the namespace a Prompt formats its template with, "context" is   *)
(* the raw value of the PromptContext and "prev" the prev_response, whatever *)
(* format() and the side-store hold under these keys; every other key has   *)
(* the value given to format() when there is one and the side-store         *)
(* variable only when format() gave none.                                   *)
C10_NamespacePrecedence ==
  \A j \in DOMAIN calls :
     LET input == calls[j].input
         p     == prompts[calls[j].step]
     IN  /\ DOMAIN input = p.template
         /\ input["context"] = context.context
         /\ input["prev"] = arg
         /\ \A k \in (DOMAIN input) \ ReservedKeys :
               IF k \in DOMAIN p.format_args
               THEN input[k] = p.format_args[k]
               ELSE k \in DOMAIN context.variables /\ input[k] = context.variables[k]

\* A request was formatted with "x" given to format() and kept in the
\* side-store, "y" kept in the side-store only, and "prev" and "context" given
\* to format() and kept in the side-store.
C10_Witness ==
  /\ calls /= <<>>
  /\ arg = "o1"
  /\ ReservedKeys \cup {"x"} \subseteq DOMAIN prompts[1].format_args
  /\ Keys \subseteq DOMAIN context.variables
  /\ "y" \notin DOMAIN prompts[1].format_args
  /\ calls[1].input = [k \in Keys |->
                         CASE k = "context" -> context.context
                           [] k = "prev" -> "o1"
                           [] k = "x" -> prompts[1].format_args["x"]
                           [] OTHER -> context.variables["y"]]

(* C11: clear(reset_prompts, reset_context, reset_responses) empties those  *)
(* of the prompt list, the context and the result map whose flag is true    *)
(* and leaves the others as they are, for the eight combinations of flags;  *)
(* clear() without arguments empties the three.                             *)
C11_ClearByFlags ==
  [][/\ \A f \in BOOLEAN \X BOOLEAN \X BOOLEAN :
          Clear(f[1], f[2], f[3]) =>
             /\ prompts' = IF f[1] THEN <<>> ELSE prompts
             /\ context' = IF f[2] THEN NoContext ELSE context
             /\ responses' = IF f[3] THEN EmptyDict ELSE responses
     /\ ClearNoArguments =>
          (prompts' = <<>> /\ context' = NoContext /\ responses' = EmptyDict)]_vars

\* The prompts were cleared, the context and the results were not.
C11_Witness ==
  /\ pc = "idle"
  /\ outcome = NoOutcome
  /\ prompts = <<>>
  /\ current_prompt = "detached"
  /\ context /= NoContext
  /\ responses /= EmptyDict

\* Everything was cleared after prompts were added.
C11_WitnessAll ==
  /\ pc = "idle"
  /\ outcome = NoOutcome
  /\ prompts = <<>>
  /\ current_prompt = "detached"
  /\ context = NoContext
  /\ responses = EmptyDict

----------------------------------------------------------------------------
\* A call of one of the builder methods.
BuilderCall ==
  \/ \E v \in CtxVals : Context(v)
  \/ \E c \in {DefaultConfig, CallerConfig} : AddPromptWith(BuilderTemplate, "a", None, c)
  \/ \E v \in ArgVals : Format([k \in {"x"} |-> v])
  \/ \E v \in ParamVals : Configure([k \in {"frequency_penalty"} |-> v])
  \/ \E m \in ModelNames : Model(m)

(* C12: context(value) replaces the context of the pipeline by a fresh     *)
(* wrapper of value whose side-store is empty, whatever was set on the      *)
(* wrapper before, and leaves the result map and the list of prompts as     *)
(* they were; no builder method (context, add_prompt, format, configure,    *)
(* model) sends a request to the client or changes the result map.          *)
C12_BuildersKeepResults ==
  [][/\ \A v \in CtxVals :
          Context(v) =>
             /\ context' = [context |-> v, variables |-> EmptyDict]
             /\ responses' = responses
             /\ prompts' = prompts
     /\ BuilderCall => (responses' = responses /\ calls' = <<>> /\ pc' = "idle")]_vars

\* context(value) has replaced a wrapper: the side-store is empty again, the
\* prompts and the stored results are there.
C12_Witness ==
  /\ pc = "idle"
  /\ outcome = NoOutcome
  /\ context = PromptContext("c2")
  /\ responses /= EmptyDict
  /\ Len(prompts) = 2
  /\ prompts[2].format_args /= EmptyDict

\* The state context(value) is called in: a variable is set on the wrapper
\* and a result is stored.
C12_WitnessBefore ==
  /\ pc = "idle"
  /\ context /= NoContext
  /\ context.variables /= EmptyDict
  /\ responses /= EmptyDict

(* C13: format, configure or model called on a pipeline that has no        *)
(* current prompt, as a pipeline just constructed, fails with the           *)
(* configuration error of the library (ValueError) and changes no prompt,   *)
(* context or result.                                                       *)
C13_NoCurrentPromptIsValueError ==
  (outcome.op \in {"format", "configure", "model"} /\ outcome.kind = "raised") =>
     /\ outcome.value = "ValueError"
     /\ prompts = <<>>

(* C14: format, configure and model change only the prompt added last:     *)
(* the template, the format arguments and the configuration of every other  *)
(* prompt of the list stay as they were, also when one PromptConfig was     *)
(* passed to several add_prompt calls.                                      *)
C14_OnlyLastPromptChanges ==
  [][BuilderCall =>
       \A j \in 1..(Len(prompts) - 1) :
          /\ prompts'[j].template = prompts[j].template
          /\ prompts'[j].format_args = prompts[j].format_args
          /\ ConfigOf(prompts[j])' = ConfigOf(prompts[j])]_vars

\* A step of a call of execute: entering it, one iteration, or its end.
ExecuteAct == pc = "running" \/ pc' = "running"

(* C17: a call of execute changes neither the list of prompts, nor the     *)
(* format arguments of any prompt, nor the side-store of the context it     *)
(* runs on (a context passed as argument is a fresh wrapper, which replaces *)
(* the one that was set); a format call changes the format arguments of the *)
(* current prompt only, so the namespace every other prompt has used or     *)
(* will use stays the same.                                                 *)
C17_ExecuteKeepsNamespaces ==
  [][/\ ExecuteAct =>
          /\ prompts' = prompts
          /\ \/ context' = context
             \/ pc = "idle" /\ arg' /= None /\ context' = PromptContext(arg')
     /\ (\E v \in ArgVals : Format([k \in {"x"} |-> v])) =>
          \A j \in 1..(Len(prompts) - 1) :
             /\ prompts'[j].format_args = prompts[j].format_args
             /\ context /= NoContext =>
                  \A prev \in Outputs \cup {None} :
                     FormatArgs(prompts'[j], context', prev)
                       = FormatArgs(prompts[j], context, prev)]_vars

\* Two steps have executed, one on its format argument and one on the
\* variable of the side-store, and both are still there.
C17_Witness ==
  /\ AllSucceeded
  /\ Len(prompts) = 2
  /\ Len(calls) = 2
  /\ context.variables /= EmptyDict
  /\ prompts[1].format_args /= EmptyDict
  /\ prompts[2].format_args = EmptyDict

\* The keyword of client.responses.create a field of PromptConfig goes by.
ParamName(f) == IF f = "max_tokens" THEN "max_output_tokens" ELSE f

(* C18: the request of a step carries the PromptConfig of that step as it  *)
(* stands: the model and every optional parameter that is set reach the     *)
(* client, and a parameter that is not set is passed as not set.            *)
C18_ConfigReachesClient ==
  \A j \in DOMAIN calls :
     LET config == ConfigOf(prompts[calls[j].step])
         params == calls[j].params
     IN  \A f \in ConfigFields :
            IF ParamName(f) \in DOMAIN params
            THEN params[ParamName(f)] = config[f]
            ELSE config[f] = None

(* C19: in every reachable state the current prompt of the builder is      *)
(* absent exactly when the list of prompts is empty, and is the last prompt *)
(* of the list otherwise.                                                   *)
C19_CurrentIsLast ==
  /\ current_prompt = "unset" <=> Len(prompts) = 0
  /\ Len(prompts) > 0 => current_prompt = "last"

(* C20: the prev value a step receives is None or the output of a step     *)
(* that executed earlier within the same call of execute; a result left in  *)
(* the result map by an earlier call never resolves a dependency.           *)
C20_PrevFromThisCall ==
  \A j \in DOMAIN calls :
     \/ calls[j].input["prev"] = None
     \/ \E k \in 1..(calls[j].step - 1) :
           /\ k <= Len(produced)
           /\ produced[k].output = calls[j].input["prev"]

(* C15: after _modify_schema, every object-typed node reachable from the   *)
(* root through properties and items at any depth, objects in arrays nested *)
(* in arrays included, has additionalProperties set to false.               *)
C15_EveryObjectClosed ==
  \A j \in DOMAIN produced : AllObjectsClosed(produced[j])

(* C16: _modify_schema is idempotent: applied to its own result it returns *)
(* that result.                                                             *)
C16_Idempotent ==
  Len(produced) = 2 => produced[2] = produced[1]

\* The second application has run on a schema that the first one changed at
\* the root and in a nested object.
C16_Witness ==
  /\ Len(produced) = 2
  /\ "additionalProperties" \notin DOMAIN arg
  /\ "properties" \in DOMAIN arg
  /\ Get(arg["properties"]["p"], "type") = "object"
  /\ "additionalProperties" \in DOMAIN arg["properties"]["p"]
  /\ arg["properties"]["p"]["additionalProperties"] = TRUE
  /\ produced[1] /= arg

====
